---- MODULE Spec2Model ----
(***************************************************************************)
(* Model of src/lambda/pii_processor.py: the Lambda entry point that       *)
(* receives a Macie finding, fetches its configuration, remediates every   *)
(* affected S3 object (quarantine copy + ACL, tags) and publishes an alert *)
(* for high severity findings.                                             *)
(*                                                                         *)
(* One invocation is a sequential program.  Its position is st[i].pc; it   *)
(* moves at every call to an external service (SSM, S3, EventBridge),      *)
(* whose outcome is chosen nondeterministically: "ok" or an error message. *)
(* The local computation that follows a call up to the next call is part   *)
(* of the same step.  Every external call is appended to `calls`.          *)
(*                                                                         *)
(* Left out: the timestamps (datetime.utcnow()) of the result, the tags,   *)
(* the copy metadata and the response body, and the log lines.  No branch  *)
(* of the program reads them.  json.dumps of the response body and of the  *)
(* alert detail is applied to values built from strings, lists and dicts   *)
(* only and cannot fail; the body is kept in its structured form.          *)
(***************************************************************************)
EXTENDS Integers, Sequences, FiniteSets, TLC

\* Longest resource list of an inbound event.
MaxResources == 2

\* Python's None, as returned by dict.get for a missing key or held by a
\* JSON null.
None == "<None>"
\* A key that the payload does not carry at all.
Absent == "<absent>"

Invocations == {1, 2}

\* ---------------------------------------------------------------- inputs

ExpectedSource == "aws.macie2"
Sources == {ExpectedSource, "other.tool", None}

\* The 'severity' member of the finding detail: the key is missing
\* ("absent"), holds null ("null"), or holds a mapping ("map") whose
\* 'description' is missing (Absent), null (None) or a string.
Descriptions == {Absent, None, "", "LOW", "MEDIUM", "HIGH", "CRITICAL", "UNKNOWN"}
Severities ==
    {[shape |-> "absent", description |-> Absent],
     [shape |-> "null", description |-> Absent]}
    \cup {[shape |-> "map", description |-> d] : d \in Descriptions}

\* Resource descriptors: bucketName / key are None when the descriptor (or
\* its whole 's3Object' member) does not carry them.
ResourceRefs ==
    {[resourceType |-> "S3Object", bucketName |-> "media", key |-> "reports/a.csv"],
     [resourceType |-> "S3Object", bucketName |-> "archive", key |-> "b.csv"],
     [resourceType |-> "S3Object", bucketName |-> None, key |-> "reports/a.csv"],
     [resourceType |-> "S3Object", bucketName |-> "media", key |-> None],
     [resourceType |-> "S3Bucket", bucketName |-> "media", key |-> "reports/a.csv"]}

ResourceLists == UNION {[1..n -> ResourceRefs] : n \in 0..MaxResources}

\* An inbound event.  hasDetail = FALSE: the envelope has no 'detail'.
Events ==
    {e \in [source : Sources, hasDetail : BOOLEAN, id : {"finding-1"},
            type : {"SensitiveData:S3Object/Personal"},
            severity : Severities, resources : ResourceLists] :
        e.hasDetail \/ (e.severity.shape = "absent" /\ e.resources = <<>>)}

\* Successfully fetched configuration mappings (prefix already stripped).
Configs == {[quarantine_prefix |-> "isolated/"], [quarantine_prefix |-> "pii/"]}

\* Failure messages of the external services.
Errors == {"AccessDenied"}
Outcomes == {"ok"} \cup Errors

\* ----------------------------------------------------------------- state

VARIABLES
    st,     \* st[i]: the local state of invocation i
    calls   \* every external call issued so far, in order

vars == <<st, calls>>

NoEvent ==
    [source |-> None, hasDetail |-> FALSE, id |-> None, type |-> None,
     severity |-> [shape |-> "absent", description |-> Absent], resources |-> <<>>]
NoConfig == [quarantine_prefix |-> None]
NoResult == [finding_id |-> None, severity |-> None, type |-> None, actions_taken |-> <<>>]
NoActionResult == [bucket |-> None, key |-> None, severity |-> None, actions |-> <<>>]
NoResponse == [statusCode |-> 0, body |-> [none |-> TRUE]]

\* pc: "idle" (not invoked), "get_configuration", "copy_object",
\* "put_object_acl", "tag_object", "send_alert", "done" (lambda_handler has
\* returned st[i].response), "crashed" (an exception left lambda_handler).
\* finding: progress of process_macie_finding: "not_called", "running",
\* "returned", "raised".
IdleState ==
    [pc |-> "idle", event |-> NoEvent, config |-> NoConfig,
     finding |-> "not_called", result |-> NoResult, idx |-> 0,
     action_result |-> NoActionResult, response |-> NoResponse]

Init ==
    /\ st = [i \in Invocations |-> IdleState]
    /\ calls = <<>>

\* ------------------------------------------------- lambda_handler's exits

\* lambda_handler: the response of the normal path.
Respond200(s, res) ==
    [s EXCEPT !.pc = "done",
              !.response = [statusCode |-> 200,
                            body |-> [message |-> "Event processed successfully",
                                      result |-> res]]]

\* Mutant: the handler lets the exception escape.
HandlerExcept_Reraise(s, msg) == [s EXCEPT !.pc = "crashed"]

\* lambda_handler: 'except Exception' maps every failure raised inside the
\* try block to a 500 response carrying str(e).
HandlerExcept(s, msg) ==
    [s EXCEPT !.pc = "done",
              !.response = [statusCode |-> 500,
                            body |-> [error |-> "Event processing failed",
                                      message |-> msg]]]

\* ------------------------------------------------ process_macie_finding

\* Mutant: every severity but LOW counts as high.
IsHighSeverity_NotLow(severity) == severity # "LOW"

IsHighSeverity(severity) == severity \in {"HIGH", "CRITICAL"}

\* Mutant: the key is not required.
IsActionable_NoKeyCheck(resource) ==
    /\ resource.resourceType = "S3Object"
    /\ resource.bucketName # None

\* resourceType == 'S3Object' and bucket_name and object_key
IsActionable(resource) ==
    /\ resource.resourceType = "S3Object"
    /\ resource.bucketName # None
    /\ resource.key # None

\* detail.get('severity', {}).get('description', 'UNKNOWN') raises
\* AttributeError when 'severity' holds null: None has no .get.
SeverityRaises(e) == e.hasDetail /\ e.severity.shape = "null"

SeverityOf(e) ==
    IF ~e.hasDetail \/ e.severity.shape = "absent" THEN "UNKNOWN"
    ELSE IF e.severity.description = Absent THEN "UNKNOWN"
    ELSE e.severity.description

\* The first index k >= from of an actionable resource, 0 when none is left.
NextActionable(resources, from) ==
    LET S == {k \in from..Len(resources) : IsActionable(resources[k])}
    IN  IF S = {} THEN 0 ELSE CHOOSE k \in S : \A j \in S : k <= j

\* return result, back in lambda_handler.
ReturnResult(s) == Respond200([s EXCEPT !.finding = "returned"], s.result)

\* Mutant: CRITICAL is left out of the alert condition.
AfterResources_OnlyHigh(s) ==
    IF s.result.severity = "HIGH"
    THEN [s EXCEPT !.pc = "send_alert", !.idx = 0, !.action_result = NoActionResult]
    ELSE ReturnResult([s EXCEPT !.idx = 0, !.action_result = NoActionResult])

\* After the loop: alert for high severity findings, then return.
AfterResources(s) ==
    IF IsHighSeverity(s.result.severity)
    THEN [s EXCEPT !.pc = "send_alert", !.idx = 0, !.action_result = NoActionResult]
    ELSE ReturnResult([s EXCEPT !.idx = 0, !.action_result = NoActionResult])

\* Mutant: every severity is quarantined.
HandlePiiInS3Object_AlwaysQuarantine(s, k) ==
    LET r == s.event.resources[k]
    IN  [s EXCEPT !.idx = k,
                  !.action_result = [bucket |-> r.bucketName, key |-> r.key,
                                     severity |-> s.result.severity,
                                     actions |-> <<>>],
                  !.pc = "copy_object"]

\* handle_pii_in_s3_object up to its first external call.
HandlePiiInS3Object(s, k) ==
    LET r == s.event.resources[k]
    IN  [s EXCEPT !.idx = k,
                  !.action_result = [bucket |-> r.bucketName, key |-> r.key,
                                     severity |-> s.result.severity,
                                     actions |-> <<>>],
                  !.pc = IF IsHighSeverity(s.result.severity)
                         THEN "copy_object" ELSE "tag_object"]

\* The for loop over affected_resources, resumed at index from.
ContinueLoop(s, from) ==
    LET k == NextActionable(s.event.resources, from)
    IN  IF k # 0 THEN HandlePiiInS3Object(s, k) ELSE AfterResources(s)

ProcessMacieFinding(s) ==
    IF SeverityRaises(s.event)
    THEN HandlerExcept([s EXCEPT !.finding = "raised"],
                       "'NoneType' object has no attribute 'get'")
    ELSE ContinueLoop(
            [s EXCEPT !.finding = "running",
                      !.result = [finding_id |-> IF s.event.hasDetail THEN s.event.id ELSE None,
                                  severity |-> SeverityOf(s.event),
                                  type |-> IF s.event.hasDetail THEN s.event.type ELSE None,
                                  actions_taken |-> <<>>]],
            1)

UnknownSourceResult == [processed |-> FALSE, reason |-> "Unknown event source"]

\* Mutant: the source is not examined.
Dispatch_NoSourceCheck(s) == ProcessMacieFinding(s)

\* lambda_handler after get_configuration has returned config.
Dispatch(s) ==
    IF s.event.source = ExpectedSource
    THEN ProcessMacieFinding(s)
    ELSE Respond200(s, UnknownSourceResult)

\* Mutant: get_configuration swallows the failure and returns no settings.
ConfigurationFailed_Swallow(s, msg) == Dispatch([s EXCEPT !.config = NoConfig])

\* get_configuration re-raises the failure of the fetch; lambda_handler's
\* handler catches it.
ConfigurationFailed(s, msg) == HandlerExcept(s, msg)

\* ------------------------------------------------------- action results

QuarantinePrefix == "quarantine/"
QuarantineKey(object_key) == QuarantinePrefix \o object_key

QuarantineSuccess(bucket_name, object_key) ==
    [action |-> "quarantine", status |-> "success",
     quarantine_location |-> bucket_name \o "/" \o QuarantineKey(object_key)]

QuarantineFailed(msg) == [action |-> "quarantine", status |-> "failed", error |-> msg]

\* str.lower() on the severities of the model.
Lower(severity) ==
    CASE severity = "LOW" -> "low"
      [] severity = "MEDIUM" -> "medium"
      [] severity = "HIGH" -> "high"
      [] severity = "CRITICAL" -> "critical"
      [] severity = "UNKNOWN" -> "unknown"
      [] severity = "" -> ""

\* severity.lower() raises AttributeError when severity is None.
LowerRaises(severity) == severity = None

Tags(severity) ==
    [pii_detected |-> "true", pii_severity |-> Lower(severity),
     security_status |-> "flagged"]

TagSuccess(severity) == [action |-> "tag", status |-> "success", tags_applied |-> Tags(severity)]

TagFailed(msg) == [action |-> "tag", status |-> "failed", error |-> msg]

\* Mutant: a failed quarantine ends the resource's remediation without a tag.
AfterQuarantine_SkipTagOnFailure(s, quarantine_result) ==
    LET done == [s.action_result EXCEPT !.actions = Append(@, quarantine_result)]
    IN  IF quarantine_result.status = "failed"
        THEN ContinueLoop([s EXCEPT !.action_result = done,
                                    !.result.actions_taken = Append(@, done)],
                          s.idx + 1)
        ELSE [s EXCEPT !.action_result = done, !.pc = "tag_object"]

\* handle_pii_in_s3_object records the quarantine result and goes on to tag.
AfterQuarantine(s, quarantine_result) ==
    [s EXCEPT !.action_result.actions = Append(@, quarantine_result),
              !.pc = "tag_object"]

\* handle_pii_in_s3_object records the tag result and returns; the loop of
\* process_macie_finding appends the outcome and goes on.
AfterTag(s, tag_result) ==
    LET done == [s.action_result EXCEPT !.actions = Append(@, tag_result)]
    IN  ContinueLoop([s EXCEPT !.action_result = done,
                               !.result.actions_taken = Append(@, done)],
                     s.idx + 1)

\* Mutant: a failed publish is raised to the caller.
AfterAlert_Raise(s, outcome) ==
    IF outcome = "ok" THEN ReturnResult(s)
    ELSE HandlerExcept([s EXCEPT !.finding = "raised"], outcome)

\* send_high_severity_alert logs and swallows a failed publish.
AfterAlert(s, outcome) == ReturnResult(s)

\* --------------------------------------------------------- external calls

Call(i, op, bucket, key, arg, outcome) ==
    [inv |-> i, op |-> op, bucket |-> bucket, key |-> key, arg |-> arg,
     outcome |-> outcome]

ParameterPrefix == "/media-processing-pipeline/dev"

AlertDetail(result) ==
    [finding_id |-> result.finding_id, severity |-> result.severity,
     type |-> result.type, actions_taken |-> result.actions_taken,
     alert_level |-> "HIGH"]

\* ---------------------------------------------------------------- actions

\* Mutant: a finding another invocation has already received is skipped.
LambdaHandler_Dedup(i) ==
    /\ st[i].pc = "idle"
    /\ \E e \in Events :
        st' = [st EXCEPT ![i] =
                 IF \E j \in Invocations \ {i} :
                        st[j].pc # "idle" /\ st[j].event.id = e.id
                 THEN Respond200([@ EXCEPT !.event = e],
                                 [processed |-> FALSE, reason |-> "Duplicate finding"])
                 ELSE [@ EXCEPT !.pc = "get_configuration", !.event = e]]
    /\ UNCHANGED calls

\* lambda_handler is entered with an event.
LambdaHandler(i) ==
    /\ st[i].pc = "idle"
    /\ \E e \in Events : st' = [st EXCEPT ![i].pc = "get_configuration", ![i].event = e]
    /\ UNCHANGED calls

GetConfiguration(i) ==
    /\ st[i].pc = "get_configuration"
    /\ \E o \in Outcomes :
        /\ calls' = Append(calls, Call(i, "get_parameters_by_path", None, None,
                                       [Path |-> ParameterPrefix], o))
        /\ IF o = "ok"
           THEN \E c \in Configs :
                    st' = [st EXCEPT ![i] = Dispatch([@ EXCEPT !.config = c])]
           ELSE st' = [st EXCEPT ![i] = ConfigurationFailed(@, o)]

\* Mutant: the quarantine prefix is read from the configuration.
CopyObject_ConfiguredPrefix(i) ==
    LET ar == st[i].action_result IN
    /\ st[i].pc = "copy_object"
    /\ \E o \in Outcomes :
        /\ calls' = Append(calls, Call(i, "copy_object", ar.bucket,
                              st[i].config.quarantine_prefix \o ar.key,
                              [CopySource |-> [Bucket |-> ar.bucket, Key |-> ar.key],
                               ServerSideEncryption |-> "AES256",
                               MetadataDirective |-> "REPLACE",
                               Metadata |-> [quarantine_reason |-> "PII-detected",
                                             original_key |-> ar.key]], o))
        /\ st' = [st EXCEPT ![i] = IF o = "ok"
                                   THEN [@ EXCEPT !.pc = "put_object_acl"]
                                   ELSE AfterQuarantine(@, QuarantineFailed(o))]

\* Mutant: the failure of the copy is ignored and the ACL call follows.
CopyObject_AclAfterFailedCopy(i) ==
    LET ar == st[i].action_result IN
    /\ st[i].pc = "copy_object"
    /\ \E o \in Outcomes :
        /\ calls' = Append(calls, Call(i, "copy_object", ar.bucket, QuarantineKey(ar.key),
                              [CopySource |-> [Bucket |-> ar.bucket, Key |-> ar.key],
                               ServerSideEncryption |-> "AES256",
                               MetadataDirective |-> "REPLACE",
                               Metadata |-> [quarantine_reason |-> "PII-detected",
                                             original_key |-> ar.key]], o))
        /\ st' = [st EXCEPT ![i].pc = "put_object_acl"]

\* quarantine_object: s3_client.copy_object
CopyObject(i) ==
    LET ar == st[i].action_result IN
    /\ st[i].pc = "copy_object"
    /\ \E o \in Outcomes :
        /\ calls' = Append(calls, Call(i, "copy_object", ar.bucket, QuarantineKey(ar.key),
                              [CopySource |-> [Bucket |-> ar.bucket, Key |-> ar.key],
                               ServerSideEncryption |-> "AES256",
                               MetadataDirective |-> "REPLACE",
                               Metadata |-> [quarantine_reason |-> "PII-detected",
                                             original_key |-> ar.key]], o))
        /\ st' = [st EXCEPT ![i] = IF o = "ok"
                                   THEN [@ EXCEPT !.pc = "put_object_acl"]
                                   ELSE AfterQuarantine(@, QuarantineFailed(o))]

\* quarantine_object: s3_client.put_object_acl
PutObjectAcl(i) ==
    LET ar == st[i].action_result IN
    /\ st[i].pc = "put_object_acl"
    /\ \E o \in Outcomes :
        /\ calls' = Append(calls, Call(i, "put_object_acl", ar.bucket, QuarantineKey(ar.key),
                              [ACL |-> "private"], o))
        /\ st' = [st EXCEPT ![i] = AfterQuarantine(@,
                                     IF o = "ok"
                                     THEN QuarantineSuccess(ar.bucket, ar.key)
                                     ELSE QuarantineFailed(o))]

\* tag_object_with_pii_info
TagObjectWithPiiInfo(i) ==
    LET ar == st[i].action_result IN
    /\ st[i].pc = "tag_object"
    /\ IF LowerRaises(ar.severity)
       THEN /\ st' = [st EXCEPT ![i] = AfterTag(@,
                        TagFailed("'NoneType' object has no attribute 'lower'"))]
            /\ UNCHANGED calls
       ELSE \E o \in Outcomes :
            /\ calls' = Append(calls, Call(i, "put_object_tagging", ar.bucket, ar.key,
                                  [TagSet |-> Tags(ar.severity)], o))
            /\ st' = [st EXCEPT ![i] = AfterTag(@,
                                         IF o = "ok"
                                         THEN TagSuccess(ar.severity)
                                         ELSE TagFailed(o))]

\* send_high_severity_alert: events_client.put_events
SendHighSeverityAlert(i) ==
    /\ st[i].pc = "send_alert"
    /\ \E o \in Outcomes :
        /\ calls' = Append(calls, Call(i, "put_events", None, None,
                              [Source |-> "media-processing-pipeline.security",
                               DetailType |-> "High Severity PII Detection",
                               Detail |-> AlertDetail(st[i].result)], o))
        /\ st' = [st EXCEPT ![i] = AfterAlert(@, o)]

Step(i) ==
    \/ LambdaHandler(i)
    \/ GetConfiguration(i)
    \/ CopyObject(i)
    \/ PutObjectAcl(i)
    \/ TagObjectWithPiiInfo(i)
    \/ SendHighSeverityAlert(i)

\* One invocation.
Next == Step(1)

Spec == Init /\ [][Next]_vars

\* ------------------------------------------- one finding delivered twice

\* The findings of the duplicate deliveries: from the expected source, with
\* a stated severity and one resource descriptor.
DuplicateEvents ==
    {e \in Events :
        /\ e.source = ExpectedSource
        /\ e.hasDetail
        /\ e.severity.shape = "map"
        /\ e.severity.description \in {"HIGH", "CRITICAL", "LOW"}
        /\ e.resources \in {<<r>> : r \in ResourceRefs}}

\* Every invocation entered so far has received the same finding.
SameFindingDelivered ==
    \A i \in Invocations :
        st[i].pc # "idle"
            => /\ st[i].event \in DuplicateEvents
               /\ \A j \in Invocations : st[j].pc # "idle" => st[j].event = st[i].event

\* Two invocations, each in its own execution environment, receive the same
\* finding; their calls to the external services interleave freely.
DeliverDuplicate(i) == LambdaHandler(i) /\ SameFindingDelivered'

NextDuplicate ==
    \E i \in Invocations :
        \/ DeliverDuplicate(i)
        \/ GetConfiguration(i)
        \/ CopyObject(i)
        \/ PutObjectAcl(i)
        \/ TagObjectWithPiiInfo(i)
        \/ SendHighSeverityAlert(i)

SpecDuplicate == Init /\ [][NextDuplicate]_vars

\* =================================================================
\* Properties
\* =================================================================

StoreOps == {"copy_object", "put_object_acl", "put_object_tagging"}

\* Positions in `calls` of the calls of invocation i to one of ops.
CallsAt(i, ops) == {p \in 1..Len(calls) : calls[p].inv = i /\ calls[p].op \in ops}

\* The calls of invocation i to one of ops, in the order issued.
CallsOf(i, ops) == SelectSeq(calls, LAMBDA c : c.inv = i /\ c.op \in ops)

ConfigFetchFailed(i) ==
    \E p \in CallsAt(i, {"get_parameters_by_path"}) : calls[p].outcome # "ok"

ConfigFetchSucceeded(i) ==
    \E p \in CallsAt(i, {"get_parameters_by_path"}) : calls[p].outcome = "ok"

Returned(i) == st[i].pc = "done"

\* The severity the payload states: HIGH or CRITICAL.
EventSeverityHigh(e) ==
    /\ e.hasDetail
    /\ e.severity.shape = "map"
    /\ e.severity.description \in {"HIGH", "CRITICAL"}

\* The severity the payload states is LOW, MEDIUM or UNKNOWN, or the payload
\* states none (no detail, no severity, no description) and it defaults.
EventSeverityLowMediumUnknown(e) ==
    \/ ~e.hasDetail
    \/ e.severity.shape = "absent"
    \/ e.severity.shape = "map"
       /\ e.severity.description \in {Absent, "LOW", "MEDIUM", "UNKNOWN"}

\* A resource of kind S3Object that carries both bucketName and key.
S3ObjectWithBucketAndKey(r) ==
    r.resourceType = "S3Object" /\ r.bucketName # None /\ r.key # None

ActionableOf(e) == SelectSeq(e.resources, S3ObjectWithBucketAndKey)

\* C1 (as stated): for every event whose source is not 'aws.macie2',
\* whatever the external services do, lambda_handler returns 200 with
\* result {processed: false, reason: "Unknown event source"}.
C1_UnknownSourceAlways200 ==
    \A i \in Invocations :
        (Returned(i) /\ st[i].event.source # ExpectedSource)
            => /\ st[i].response.statusCode = 200
               /\ st[i].response.body.result = UnknownSourceResult

\* C1 (amended): for every event whose source is not 'aws.macie2',
\* lambda_handler returns 200 with the "Unknown event source" result when the
\* configuration fetch succeeded, and 500 when it failed; in both cases
\* process_macie_finding is not called and only the fetch is issued.
C1_UnknownSourceAfterConfig ==
    \A i \in Invocations :
        (Returned(i) /\ st[i].event.source # ExpectedSource)
            => /\ st[i].finding = "not_called"
               /\ CallsAt(i, StoreOps \cup {"put_events"}) = {}
               /\ ConfigFetchSucceeded(i)
                    => /\ st[i].response.statusCode = 200
                       /\ st[i].response.body.result = UnknownSourceResult
               /\ ConfigFetchFailed(i) => st[i].response.statusCode = 500
               /\ ConfigFetchSucceeded(i) \/ ConfigFetchFailed(i)

C1_Witness ==
    \E i \in Invocations :
        /\ Returned(i)
        /\ st[i].event.source = "other.tool"
        /\ st[i].event.resources # <<>>
        /\ ConfigFetchSucceeded(i)
        /\ st[i].response.statusCode = 200

\* C2: whenever the configuration fetch fails, lambda_handler returns 500
\* with a non-empty error message, process_macie_finding is not invoked and
\* no copy, ACL, tag or publish call is issued in that invocation.
C2_ConfigFailureIs500 ==
    \A i \in Invocations :
        ConfigFetchFailed(i)
            => /\ Returned(i)
               /\ st[i].response.statusCode = 500
               /\ st[i].response.body.error # ""
               /\ st[i].response.body.message \in Errors
               /\ st[i].response.body.message # ""
               /\ st[i].finding = "not_called"
               /\ CallsAt(i, StoreOps \cup {"put_events"}) = {}

C2_Witness ==
    \E i \in Invocations :
        /\ ConfigFetchFailed(i)
        /\ st[i].event.source = ExpectedSource
        /\ EventSeverityHigh(st[i].event)
        /\ Len(ActionableOf(st[i].event)) > 0
        /\ st[i].response.statusCode = 500

\* C3: for every event and every combination of outcomes of the external
\* calls, lambda_handler ends by returning a response whose statusCode is
\* 200 or 500: no exception leaves it, and an invocation that has not yet
\* returned can always take its next step.
C3_AlwaysAnEnvelope ==
    \A i \in Invocations :
        /\ st[i].pc # "crashed"
        /\ Returned(i) => st[i].response.statusCode \in {200, 500}
        /\ st[i].pc \notin {"idle", "done"} => ENABLED Step(i)

C3_Witness ==
    \E i \in Invocations :
        /\ Returned(i)
        /\ st[i].response.statusCode = 200
        /\ \E p \in CallsAt(i, {"copy_object"}) : calls[p].outcome # "ok"
        /\ \E p \in CallsAt(i, {"put_object_acl"}) : calls[p].outcome # "ok"
        /\ \E p \in CallsAt(i, {"put_object_tagging"}) : calls[p].outcome # "ok"
        /\ \E p \in CallsAt(i, {"put_events"}) : calls[p].outcome # "ok"

\* C4: for every event of severity HIGH or CRITICAL processed by
\* process_macie_finding, the publish is attempted exactly once, after the
\* remediation of every actionable resource has completed: no copy, ACL or
\* tag call of the invocation follows it, and the alert carries one complete
\* outcome per actionable resource.
C4_AlertOnceAfterRemediation ==
    \A i \in Invocations :
        (st[i].finding \in {"running", "returned"} /\ EventSeverityHigh(st[i].event))
            => /\ Cardinality(CallsAt(i, {"put_events"})) <= 1
               /\ Returned(i) => Cardinality(CallsAt(i, {"put_events"})) = 1
               /\ \A p \in CallsAt(i, {"put_events"}) :
                    /\ \A q \in CallsAt(i, StoreOps) : q < p
                    /\ Len(calls[p].arg.Detail.actions_taken)
                         = Len(ActionableOf(st[i].event))
                    /\ Len(CallsOf(i, {"put_object_tagging"}))
                         = Len(ActionableOf(st[i].event))
                    /\ \A k \in 1..Len(calls[p].arg.Detail.actions_taken) :
                         Len(calls[p].arg.Detail.actions_taken[k].actions) = 2

C4_Witness ==
    \E i \in Invocations :
        /\ Returned(i)
        /\ st[i].event.severity.description = "CRITICAL"
        /\ Len(ActionableOf(st[i].event)) = 2
        /\ Cardinality(CallsAt(i, {"put_events"})) = 1
        /\ Cardinality(CallsAt(i, {"copy_object"})) = 2

\* C5: for every event whose severity is LOW, MEDIUM or UNKNOWN (stated or
\* defaulted), the event publisher is never called during the invocation.
C5_NoAlertBelowHigh ==
    \A i \in Invocations :
        EventSeverityLowMediumUnknown(st[i].event)
            => CallsAt(i, {"put_events"}) = {}

C5_Witness ==
    \E i \in Invocations :
        /\ Returned(i)
        /\ st[i].finding = "returned"
        /\ st[i].event.hasDetail
        /\ st[i].event.severity.shape = "map"
        /\ st[i].event.severity.description = "MEDIUM"
        /\ Len(st[i].result.actions_taken) = 2
        /\ CallsAt(i, {"put_events"}) = {}

\* The bucket and key of each per-resource outcome, in order.
Targets(actions_taken) ==
    [k \in 1..Len(actions_taken) |-> <<actions_taken[k].bucket, actions_taken[k].key>>]

\* The bucket and key of each resource of a list, in order.
Objects(resources) ==
    [k \in 1..Len(resources) |-> <<resources[k].bucketName, resources[k].key>>]

\* C6: for every actionable resource of an event of severity HIGH or
\* CRITICAL, the recorded outcome is a quarantine result followed by a tag
\* result, whatever the quarantine's status; the tag call is issued for that
\* object and the tag status is success exactly when that call succeeded.
C6_QuarantineThenTag ==
    \A i \in Invocations :
        EventSeverityHigh(st[i].event)
            => LET taken == st[i].result.actions_taken
                   tagged == CallsOf(i, {"put_object_tagging"})
               IN  \A k \in 1..Len(taken) :
                    /\ Len(taken[k].actions) = 2
                    /\ taken[k].actions[1].action = "quarantine"
                    /\ taken[k].actions[1].status \in {"success", "failed"}
                    /\ taken[k].actions[2].action = "tag"
                    /\ Len(tagged) >= k
                    /\ tagged[k].bucket = taken[k].bucket
                    /\ tagged[k].key = taken[k].key
                    /\ (taken[k].actions[2].status = "success") <=> (tagged[k].outcome = "ok")
                    /\ (taken[k].actions[2].status = "failed") <=> (tagged[k].outcome # "ok")

C6_Witness ==
    \E i \in Invocations :
        /\ Returned(i)
        /\ EventSeverityHigh(st[i].event)
        /\ Len(st[i].result.actions_taken) = 2
        /\ st[i].result.actions_taken[1].actions[1].status = "failed"
        /\ st[i].result.actions_taken[1].actions[2].status = "success"
        /\ st[i].result.actions_taken[2].actions[1].status = "success"
        /\ st[i].result.actions_taken[2].actions[2].status = "failed"

\* C7: for every actionable resource of an event whose severity is outside
\* {HIGH, CRITICAL}, the recorded outcome holds a tag result only, and the
\* invocation issues no copy and no ACL call.
C7_TagOnlyBelowHigh ==
    \A i \in Invocations :
        (st[i].finding \in {"running", "returned"} /\ ~EventSeverityHigh(st[i].event))
            => /\ CallsAt(i, {"copy_object", "put_object_acl"}) = {}
               /\ \A k \in 1..Len(st[i].result.actions_taken) :
                    LET actions == st[i].result.actions_taken[k].actions
                    IN  /\ Len(actions) = 1
                        /\ actions[1].action = "tag"

C7_Witness ==
    \E i \in Invocations :
        /\ Returned(i)
        /\ st[i].event.hasDetail
        /\ st[i].event.severity.shape = "map"
        /\ st[i].event.severity.description = "LOW"
        /\ Len(st[i].result.actions_taken) = 2
        /\ st[i].result.actions_taken[1].actions[1].status = "success"
        /\ Cardinality(CallsAt(i, {"put_object_tagging"})) = 2

IsPrefix(a, b) == Len(a) <= Len(b) /\ \A k \in 1..Len(a) : a[k] = b[k]

\* The objects the tag calls of invocation i were issued for, in order.
TaggedObjects(i) ==
    LET c == CallsOf(i, {"put_object_tagging"})
    IN  [k \in 1..Len(c) |-> <<c[k].bucket, c[k].key>>]

\* The objects the copy calls of invocation i read, in order.
CopiedObjects(i) ==
    LET c == CallsOf(i, {"copy_object"})
    IN  [k \in 1..Len(c) |-> <<c[k].arg.CopySource.Bucket, c[k].arg.CopySource.Key>>]

\* C8: after process_macie_finding, actions_taken holds exactly one entry
\* for each resource of kind S3Object carrying both bucketName and key, in
\* the order of the resource list; no entry and no object-store call exists
\* for any other resource: the tag calls and the copy calls go through the
\* actionable resources in order, at most one each per resource.
C8_OneEntryPerActionableResource ==
    \A i \in Invocations :
        /\ st[i].finding = "returned"
             => Targets(st[i].result.actions_taken) = Objects(ActionableOf(st[i].event))
        /\ IsPrefix(TaggedObjects(i), Objects(ActionableOf(st[i].event)))
        /\ IsPrefix(CopiedObjects(i), Objects(ActionableOf(st[i].event)))
        /\ Cardinality(CallsAt(i, {"put_object_acl"}))
             <= Cardinality(CallsAt(i, {"copy_object"}))
        /\ \A p \in CallsAt(i, StoreOps) :
             \E k \in 1..Len(st[i].event.resources) :
                LET r == st[i].event.resources[k]
                IN  /\ S3ObjectWithBucketAndKey(r)
                    /\ calls[p].bucket = r.bucketName
                    /\ IF calls[p].op = "put_object_tagging"
                       THEN calls[p].key = r.key
                       ELSE calls[p].key = "quarantine/" \o r.key

C8_Witness ==
    \E i \in Invocations :
        /\ st[i].finding = "returned"
        /\ Len(st[i].event.resources) = 2
        /\ st[i].event.resources[1].resourceType = "S3Object"
        /\ st[i].event.resources[1].key = None
        /\ Len(st[i].result.actions_taken) = 1
        /\ st[i].result.actions_taken[1].key = "b.csv"

\* C9: process_macie_finding never fails outright: for any event and any
\* pattern of copy, ACL or tag failures it returns a ProcessingResult in
\* which every actionable resource has its outcome, each failure being a
\* failed action result of its own resource.
C9_NeverFailsOutright ==
    \A i \in Invocations :
        /\ st[i].finding # "raised"
        /\ (Returned(i) /\ ConfigFetchSucceeded(i) /\ st[i].event.source = ExpectedSource)
             => /\ st[i].finding = "returned"
                /\ st[i].response.statusCode = 200
                /\ Len(st[i].result.actions_taken) = Len(ActionableOf(st[i].event))

\* C10: the outcome of the publish is not observed by the caller: once the
\* publish has been attempted, failed or not, process_macie_finding has
\* returned the ProcessingResult built before the alert (the one the alert
\* carries) and lambda_handler has returned it with status 200.
C10_AlertFailureSwallowed ==
    \A i \in Invocations :
        \A p \in CallsAt(i, {"put_events"}) :
            /\ Returned(i)
            /\ st[i].finding = "returned"
            /\ st[i].response.statusCode = 200
            /\ st[i].response.body.result = st[i].result
            /\ st[i].response.body.result.actions_taken
                 = calls[p].arg.Detail.actions_taken
            /\ st[i].response.body.result.finding_id = calls[p].arg.Detail.finding_id
            /\ st[i].response.body.result.severity = calls[p].arg.Detail.severity
            /\ st[i].response.body.result.type = calls[p].arg.Detail.type

C10_Witness ==
    \E i \in Invocations :
        /\ Returned(i)
        /\ \E p \in CallsAt(i, {"put_events"}) : calls[p].outcome # "ok"
        /\ st[i].response.statusCode = 200
        /\ Len(st[i].response.body.result.actions_taken) = 2

\* The payload states no severity: 'detail', 'severity' or 'description' is
\* missing, or 'severity' or 'description' is null or empty.
SeverityMissingOrEmpty(e) ==
    \/ ~e.hasDetail
    \/ e.severity.shape \in {"absent", "null"}
    \/ e.severity.shape = "map" /\ e.severity.description \in {Absent, None, ""}

\* C11: the severity of a ProcessingResult is never absent or null: for
\* every payload whose severity (or its description) is missing or empty,
\* process_macie_finding does not fail, and the severity of the result, of
\* every per-resource outcome and of the tags applied is UNKNOWN.
C11_SeverityDefaultsToUnknown ==
    \A i \in Invocations :
        (st[i].finding # "not_called" /\ SeverityMissingOrEmpty(st[i].event))
            => /\ st[i].finding # "raised"
               /\ st[i].result.severity # None
               /\ st[i].result.severity = "UNKNOWN"
               /\ \A k \in 1..Len(st[i].result.actions_taken) :
                    st[i].result.actions_taken[k].severity = "UNKNOWN"
               /\ \A p \in CallsAt(i, {"put_object_tagging"}) :
                    calls[p].arg.TagSet.pii_severity = "unknown"

\* The quarantine results invocation i has recorded so far, in order, each
\* with the object it is about.
QuarantineResults(i) ==
    LET entries == IF st[i].action_result.actions # <<>>
                   THEN Append(st[i].result.actions_taken, st[i].action_result)
                   ELSE st[i].result.actions_taken
        quarantined == SelectSeq(entries, LAMBDA e : e.actions[1].action = "quarantine")
    IN  [k \in 1..Len(quarantined) |->
            [bucket |-> quarantined[k].bucket, key |-> quarantined[k].key,
             result |-> quarantined[k].actions[1]]]

\* A copy call that created bucket/key succeeded at position p of `calls`.
CopyCreatedAt(p, bucket, key) ==
    /\ calls[p].op = "copy_object"
    /\ calls[p].bucket = bucket
    /\ calls[p].key = key
    /\ calls[p].outcome = "ok"

\* The access control of bucket/key was set to private after position p.
SetPrivateAfter(p, bucket, key) ==
    \E q \in (p + 1)..Len(calls) :
        /\ calls[q].op = "put_object_acl"
        /\ calls[q].bucket = bucket
        /\ calls[q].key = key
        /\ calls[q].arg.ACL = "private"
        /\ calls[q].outcome = "ok"

\* C12: whenever a quarantine action has created the quarantined copy (its
\* copy call succeeded), the copy's access control has been set to private
\* by the time the action has returned its result.
C12_CopyAlwaysMadePrivate ==
    \A i \in Invocations :
        \A k \in 1..Len(QuarantineResults(i)) :
            LET r == QuarantineResults(i)[k]
                copy == CallsOf(i, {"copy_object"})[k]
            IN  copy.outcome = "ok"
                    => \E p \in CallsAt(i, {"copy_object"}) :
                        /\ CopyCreatedAt(p, r.bucket, "quarantine/" \o r.key)
                        /\ SetPrivateAfter(p, r.bucket, "quarantine/" \o r.key)

\* The position in the sequence S of calls of its k-th copy call.
KthCopy(S, k) ==
    CHOOSE q \in 1..Len(S) :
        /\ S[q].op = "copy_object"
        /\ Cardinality({j \in 1..q : S[j].op = "copy_object"}) = k

\* C14: a quarantine result is success exactly when both the copy call and
\* the ACL call that follows it succeeded, and its location is then
\* '<bucket>/quarantine/<key>' in the bucket of the object; the ACL call is
\* issued only right after a successful copy to the same location, so a
\* failed copy gives a failed result and no ACL call.
C14_QuarantineSuccessIffCopyAndAcl ==
    \A i \in Invocations :
        LET S == CallsOf(i, StoreOps)
            Q == QuarantineResults(i)
        IN  /\ \A q \in 1..Len(S) :
                 S[q].op = "put_object_acl"
                    => /\ q > 1
                       /\ S[q - 1].op = "copy_object"
                       /\ S[q - 1].outcome = "ok"
                       /\ S[q - 1].bucket = S[q].bucket
                       /\ S[q - 1].key = S[q].key
            /\ \A k \in 1..Len(Q) :
                 /\ Len(CallsOf(i, {"copy_object"})) >= k
                 /\ LET q == KthCopy(S, k)
                        copyOk == S[q].outcome = "ok"
                        aclIssued == q < Len(S) /\ S[q + 1].op = "put_object_acl"
                        aclOk == aclIssued /\ S[q + 1].outcome = "ok"
                    IN  /\ S[q].arg.CopySource = [Bucket |-> Q[k].bucket, Key |-> Q[k].key]
                        /\ Q[k].result.status \in {"success", "failed"}
                        /\ (Q[k].result.status = "success") <=> (copyOk /\ aclOk)
                        /\ Q[k].result.status = "success"
                             => /\ Q[k].result.quarantine_location
                                     = Q[k].bucket \o "/quarantine/" \o Q[k].key
                                /\ S[q].bucket = Q[k].bucket
                                /\ S[q].key = "quarantine/" \o Q[k].key
                        /\ copyOk => aclIssued
                        /\ ~copyOk => ~aclIssued

C14_Witness ==
    \E i \in Invocations :
        /\ Returned(i)
        /\ Len(QuarantineResults(i)) = 2
        /\ QuarantineResults(i)[1].result.status = "failed"
        /\ Cardinality(CallsAt(i, {"put_object_acl"})) = 1
        /\ QuarantineResults(i)[2].result.status = "success"
        /\ QuarantineResults(i)[2].result.quarantine_location = "archive/quarantine/b.csv"

AllOps == StoreOps \cup {"get_parameters_by_path", "put_events"}

\* C13: no de-duplication across invocations: when the same HIGH or CRITICAL
\* finding is delivered to two invocations, under every interleaving of
\* their calls each invocation fetches its configuration and, once fetched,
\* runs the full remediation itself (a copy and a tag call per actionable
\* resource, an ACL call after each of its successful copies, then one
\* alert as its last call), and the ProcessingResult it returns follows the
\* outcomes of its own calls only.
C13_NoDeduplication ==
    \A i \in Invocations :
        (Returned(i) /\ EventSeverityHigh(st[i].event))
            => /\ ConfigFetchSucceeded(i) \/ ConfigFetchFailed(i)
               /\ ConfigFetchSucceeded(i)
                    => LET S == CallsOf(i, StoreOps)
                           mine == CallsOf(i, AllOps)
                           tagged == CallsOf(i, {"put_object_tagging"})
                           taken == st[i].result.actions_taken
                       IN  /\ st[i].finding = "returned"
                           /\ st[i].response.statusCode = 200
                           /\ st[i].response.body.result = st[i].result
                           /\ CopiedObjects(i) = Objects(ActionableOf(st[i].event))
                           /\ TaggedObjects(i) = Objects(ActionableOf(st[i].event))
                           /\ Cardinality(CallsAt(i, {"put_object_acl"}))
                                = Cardinality({p \in CallsAt(i, {"copy_object"}) :
                                                  calls[p].outcome = "ok"})
                           /\ Cardinality(CallsAt(i, {"put_events"})) = 1
                           /\ mine[Len(mine)].op = "put_events"
                           /\ Len(taken) = Len(ActionableOf(st[i].event))
                           /\ \A k \in 1..Len(taken) :
                                LET q == KthCopy(S, k)
                                IN  /\ (taken[k].actions[1].status = "success")
                                          <=> /\ S[q].outcome = "ok"
                                              /\ S[q + 1].op = "put_object_acl"
                                              /\ S[q + 1].outcome = "ok"
                                    /\ (taken[k].actions[2].status = "success")
                                          <=> (tagged[k].outcome = "ok")

\* Both deliveries ran interleaved and ended with different results.
C13_Witness ==
    /\ \A i \in Invocations :
        /\ Returned(i)
        /\ EventSeverityHigh(st[i].event)
        /\ ConfigFetchSucceeded(i)
        /\ Len(st[i].result.actions_taken) = 1
        /\ Cardinality(CallsAt(i, {"put_events"})) = 1
    /\ st[1].result.actions_taken[1].actions[1].status = "success"
    /\ st[2].result.actions_taken[1].actions[1].status = "failed"
    /\ st[2].result.actions_taken[1].actions[2].status = "success"
    /\ \E p \in CallsAt(2, {"copy_object"}) :
         /\ calls[p].outcome = "ok"
         /\ \E q \in CallsAt(1, {"copy_object"}) : q < p
         /\ \E q \in CallsAt(1, {"put_object_acl"}) : q > p

\* A call without the invocation that issued it.
Anonymous(c) == [op |-> c.op, bucket |-> c.bucket, key |-> c.key, arg |-> c.arg,
                 outcome |-> c.outcome]

\* The calls of invocation i, in order, without the invocation's name.
OwnCalls(i) ==
    LET c == CallsOf(i, AllOps) IN [k \in 1..Len(c) |-> Anonymous(c[k])]

\* The outcomes the external services gave invocation i, in order.
OwnOutcomes(i) ==
    LET c == CallsOf(i, AllOps) IN [k \in 1..Len(c) |-> c[k].outcome]

====
